---------------------------- MODULE Spec2Model ----------------------------
(***************************************************************************)
(* HD44780 character LCD behind a PCF8574 I2C expander.                    *)
(*                                                                         *)
(* Two driver variants of the repository are modelled:                     *)
(*   "CPLCD" : CPLCD/lcd.py BaseCharLCD with CPLCD/i2c.py I2CLCD           *)
(*   "lcd"   : lcd/lcd.py LCD with its subclass LCD_I2C                    *)
(* The state is the driver object's fields, the bytes the current          *)
(* operation has written to the expander (bus) and the sends it has made   *)
(* (log).  A method call is one action; construction is a sequence of      *)
(* steps, one per command of __init__.  The setters display_enabled,       *)
(* cursor_mode and write_shift_mode, and close, are not modelled: they     *)
(* touch neither the cursor nor the line-break state.  The attribute       *)
(* _content that clear() assigns is never read and is left out.  Time is   *)
(* counted in microseconds: slept holds, for every send, how long the      *)
(* program sleeps between the last byte of the send and what it does next. *)
(* The controller's address counter (hw) and the history of the line-break *)
(* state (hist) are followed only by the specification SpecTrack.          *)
(***************************************************************************)
EXTENDS Integers, Sequences, FiniteSets, TLC

(***************************************************************************)
(* Bounds of the model.                                                    *)
(***************************************************************************)
\* columns of the display range over 1..MaxCols
MaxCols == 3
\* print is called with every string of at most MaxStr characters ...
MaxStr == 2
\* ... and with a full line of "A" followed by at most MaxTail characters
MaxTail == 3
\* with auto_linebreaks off the column is not bounded by the code: the model
\* follows it at most MaxOverrun cells beyond either end of the row
MaxOverrun == 1
\* shift_display amounts range over -MaxShift..MaxShift
MaxShift == 2

(***************************************************************************)
(* Program constants (identical in CPLCD/lcd.py and lcd/lcd.py).           *)
(***************************************************************************)
LCD_CLEARDISPLAY == 1
LCD_RETURNHOME == 2
LCD_ENTRYMODESET == 4
LCD_DISPLAYCONTROL == 8
LCD_CURSORSHIFT == 16
LCD_FUNCTIONSET == 32
LCD_SETCGRAMADDR == 64
LCD_SETDDRAMADDR == 128

LCD_ENTRYRIGHT == 0
LCD_ENTRYLEFT == 2
LCD_ENTRYSHIFTINCREMENT == 1
LCD_ENTRYSHIFTDECREMENT == 0

LCD_DISPLAYON == 4
LCD_DISPLAYOFF == 0
LCD_CURSORON == 2
LCD_CURSOROFF == 0
LCD_BLINKON == 1
LCD_BLINKOFF == 0

LCD_DISPLAYMOVE == 8
LCD_MOVERIGHT == 4
LCD_MOVELEFT == 0

LCD_8BITMODE == 16
LCD_4BITMODE == 0
LCD_2LINE == 8
LCD_1LINE == 0
LCD_5x10DOTS == 4
LCD_5x8DOTS == 0

LCD_BACKLIGHT == 8
LCD_NOBACKLIGHT == 0

RS_INSTRUCTION == 0
RS_DATA == 1

PIN_ENABLE == 4

\* ~PIN_ENABLE restricted to the eight bits of an expander word
NOT_PIN_ENABLE == 251

(***************************************************************************)
(* Python's & and | on non-negative integers.                              *)
(***************************************************************************)
RECURSIVE BitAnd(_, _)
BitAnd(a, b) ==
    IF a = 0 \/ b = 0 THEN 0
    ELSE (a % 2) * (b % 2) + 2 * BitAnd(a \div 2, b \div 2)

RECURSIVE BitOr(_, _)
BitOr(a, b) ==
    IF a = 0 THEN b
    ELSE IF b = 0 THEN a
    ELSE (IF a % 2 = 1 \/ b % 2 = 1 THEN 1 ELSE 0)
         + 2 * BitOr(a \div 2, b \div 2)

\* value << n
ShiftLeft(value, n) == value * (2 ^ n)


(***************************************************************************)
(* State.                                                                  *)
(***************************************************************************)
VARIABLES
    variant,                \* "CPLCD" (BaseCharLCD/I2CLCD) or "lcd" (LCD/LCD_I2C)
    cols,                   \* self.cols / self.num_cols
    rows,                   \* self.rows / self.num_rows
    dotsize,                \* self.dotsize / self.char_height
    auto_linebreaks,        \* self.auto_linebreaks (CPLCD only)
    phase,                  \* how far construction has come
    cursor_pos,             \* self._cursor_pos / (self._row, self._col)
    text_align_mode,        \* self._text_align_mode
    display_shift_mode,     \* self._display_shift_mode
    display_mode,           \* self._display_mode
    cursor_mode,            \* self._cursor_mode
    recent_auto_linebreak,  \* self.recent_auto_linebreak
    backlight_pin_state,    \* self._backlight_pin_state
    data_bus_mode,          \* self.data_bus_mode
    connected,              \* the I2C connection has been opened
    slept,                  \* microseconds slept after each send of the operation
    hw,                     \* the HD44780's address counter and entry mode
    hist,                   \* what has happened since the last automatic line break
    bus,                    \* bytes written to the expander by the operation
    log,                    \* the sends (_send calls) of the operation
    err,                    \* the exception the operation ended with
    fault,                  \* which byte write of the operation the bus refuses
    op,                     \* the operation and its arguments
    pre                     \* cursor_pos and flag when the operation began

config == <<variant, cols, rows, dotsize, auto_linebreaks, data_bus_mode>>

vars == <<variant, cols, rows, dotsize, auto_linebreaks, phase, cursor_pos,
          text_align_mode, display_shift_mode, display_mode, cursor_mode,
          recent_auto_linebreak, backlight_pin_state, data_bus_mode, connected,
          slept, hw, hist, bus, log, err, fault, op, pre>>

\* an attribute that has not been assigned yet
Unset == <<>>

\* no exception
NoError == "none"

\* i2c_device.write raises for no byte of the operation
NoFault == 0

\* Python's None for the local variable `ignored` of print
None == "None"

(***************************************************************************)
(* The driver object as a record, so that a method is an operator from     *)
(* the object before the call to the object after it.                      *)
(***************************************************************************)
Self ==
    [pos    |-> cursor_pos,
     align  |-> text_align_mode,
     shift  |-> display_shift_mode,
     dmode  |-> display_mode,
     cmode  |-> cursor_mode,
     recent |-> recent_auto_linebreak,
     bl     |-> backlight_pin_state,
     conn   |-> connected,
     slept  |-> slept,
     bus    |-> bus,
     log    |-> log,
     err    |-> err,
     fault  |-> fault]

\* the object at the start of a call: nothing written yet, nothing raised
Begin == [Self EXCEPT !.bus = <<>>, !.log = <<>>, !.slept = <<>>, !.err = NoError]

Commit(t) ==
    /\ cursor_pos' = t.pos
    /\ text_align_mode' = t.align
    /\ display_shift_mode' = t.shift
    /\ display_mode' = t.dmode
    /\ cursor_mode' = t.cmode
    /\ recent_auto_linebreak' = t.recent
    /\ backlight_pin_state' = t.bl
    /\ connected' = t.conn
    /\ slept' = t.slept
    /\ bus' = t.bus
    /\ log' = t.log
    /\ err' = t.err

Snapshot == [pos |-> cursor_pos, recent |-> recent_auto_linebreak]

Raise(s, e) == [s EXCEPT !.err = e]

\* two statements in sequence: u is what the second makes of t, and it does
\* not run when the first has raised
Then(t, u) == IF t.err # NoError THEN t ELSE u

(***************************************************************************)
(* The nibble sender.                                                      *)
(***************************************************************************)
\* _pulse_data with the mask of the enable bit not inverted
PulseDataWrongMask(value, bl) ==
    << BitOr(BitAnd(value, PIN_ENABLE), bl),
       BitOr(BitOr(value, PIN_ENABLE), bl),
       BitOr(BitAnd(value, PIN_ENABLE), bl) >>

\* a pulse that never takes the enable line down again
PulseDataEnableLeftHigh(value, bl) ==
    << BitOr(BitAnd(value, NOT_PIN_ENABLE), bl),
       BitOr(BitOr(value, PIN_ENABLE), bl),
       BitOr(BitOr(value, PIN_ENABLE), bl) >>

\* I2CLCD._pulse_data(value): the three bytes of one enable pulse
PulseData(value, bl) ==
    << BitOr(BitAnd(value, NOT_PIN_ENABLE), bl),
       BitOr(BitOr(value, PIN_ENABLE), bl),
       BitOr(BitAnd(value, NOT_PIN_ENABLE), bl) >>

\* I2CLCD._write4bits(value)
Write4Bits(value, bl) == PulseData(BitOr(value, bl), bl)

\* _send with the two nibbles in the wrong order
SendBytesLowFirst(value, rs_mode, bl) ==
    Write4Bits(BitOr(rs_mode, BitAnd(ShiftLeft(value, 4), 240)), bl)
    \o Write4Bits(BitOr(rs_mode, BitAnd(value, 240)), bl)

\* I2CLCD._send(value, rs_mode): the six bytes of one send
SendBytes(value, rs_mode, bl) ==
    Write4Bits(BitOr(rs_mode, BitAnd(value, 240)), bl)
    \o Write4Bits(BitOr(rs_mode, BitAnd(ShiftLeft(value, 4), 240)), bl)

\* LCD_I2C._write4bits(value): the backlight bit is already in value
LcdWrite4Bits(value) ==
    << BitAnd(value, NOT_PIN_ENABLE),
       BitOr(value, PIN_ENABLE),
       BitAnd(value, NOT_PIN_ENABLE) >>

\* LCD_I2C.send(value, rs_mode)
LcdSendBytes(value, rs_mode, bl) ==
    LcdWrite4Bits(BitOr(BitOr(rs_mode, BitAnd(value, 240)), bl))
    \o LcdWrite4Bits(BitOr(BitOr(rs_mode, BitAnd(ShiftLeft(value, 4), 240)), bl))

\* I2CPCF8574Interface.send(value, rs_mode): the backlight bit is always set
InterfaceSendBytes(value, rs_mode) ==
    LcdWrite4Bits(BitOr(BitOr(rs_mode, BitAnd(value, 240)), LCD_BACKLIGHT))
    \o LcdWrite4Bits(BitOr(BitOr(rs_mode, BitAnd(ShiftLeft(value, 4), 240)),
                           LCD_BACKLIGHT))

\* time.sleep(100*MICROSECOND), the last statement of _pulse_data and of
\* LCD_I2C._write4bits
PulseHold == 100

\* the events of a nibble transmission in the order of the statements
Wrote(b) == [kind |-> "write", v |-> b]

Slept(us) == [kind |-> "sleep", v |-> us]

\* _pulse_data going on to the next nibble without the closing sleep
PulseDataTraceNoHold(value, bl) ==
    << Wrote(BitOr(BitAnd(value, NOT_PIN_ENABLE), bl)),
       Slept(1),
       Wrote(BitOr(BitOr(value, PIN_ENABLE), bl)),
       Slept(1),
       Wrote(BitOr(BitAnd(value, NOT_PIN_ENABLE), bl)) >>

\* I2CLCD._pulse_data(value), statement by statement: _i2c_write,
\* time.sleep(MICROSECOND), _i2c_write, time.sleep(MICROSECOND), _i2c_write
\* and, after the with block, time.sleep(100*MICROSECOND)
PulseDataTrace(value, bl) ==
    << Wrote(BitOr(BitAnd(value, NOT_PIN_ENABLE), bl)),
       Slept(1),
       Wrote(BitOr(BitOr(value, PIN_ENABLE), bl)),
       Slept(1),
       Wrote(BitOr(BitAnd(value, NOT_PIN_ENABLE), bl)),
       Slept(PulseHold) >>

\* I2CLCD._send(value, rs_mode), statement by statement
SendTrace(value, rs_mode, bl) ==
    PulseDataTrace(BitOr(BitOr(rs_mode, BitAnd(value, 240)), bl), bl)
    \o PulseDataTrace(BitOr(BitOr(rs_mode, BitAnd(ShiftLeft(value, 4), 240)), bl),
                      bl)

\* LCD_I2C._write4bits(value) and I2CPCF8574Interface._write4bits(value),
\* statement by statement: the sleeps are time.sleep(MICROSECOND) and
\* time.sleep(100*MICROSECOND) in the first, microcontroller.delay_us(1) and
\* delay_us(100) in the second
LcdWrite4BitsTrace(value) ==
    << Wrote(BitAnd(value, NOT_PIN_ENABLE)),
       Slept(1),
       Wrote(BitOr(value, PIN_ENABLE)),
       Slept(1),
       Wrote(BitAnd(value, NOT_PIN_ENABLE)),
       Slept(PulseHold) >>

\* LCD_I2C.send(value, rs_mode), statement by statement
LcdSendTrace(value, rs_mode, bl) ==
    LcdWrite4BitsTrace(BitOr(BitOr(rs_mode, BitAnd(value, 240)), bl))
    \o LcdWrite4BitsTrace(
           BitOr(BitOr(rs_mode, BitAnd(ShiftLeft(value, 4), 240)), bl))

\* the byte writes where a refused byte is written again and the rest follows
WriteBytesRetried(s, w) ==
    IF s.err # NoError THEN s ELSE [s EXCEPT !.bus = @ \o w]

\* self.i2c_device.write(self.data_buffer) for each byte of w in turn, inside
\* _i2c_write: the bus raises at the write numbered s.fault of the operation,
\* no statement of the driver catches it, and nothing after it runs
WriteBytes(s, w) ==
    LET n == Len(s.bus)
    IN  IF s.err # NoError THEN s
        ELSE IF s.fault \in (n + 1)..(n + Len(w))
        THEN Raise([s EXCEPT !.bus = @ \o SubSeq(w, 1, s.fault - n - 1)],
                   "OSError")
        ELSE [s EXCEPT !.bus = @ \o w]

\* _send / send on the object: six bytes on the bus, one entry in the log
\* (at: the stored cursor position at the moment of the send), and the sleep
\* that ends its second pulse
Send(s, value, rs_mode) ==
    LET t == WriteBytes(s, IF variant = "CPLCD"
                           THEN SendBytes(value, rs_mode, s.bl)
                           ELSE LcdSendBytes(value, rs_mode, s.bl))
    IN  Then(t, [t EXCEPT
                   !.log = Append(@, [rs |-> rs_mode, value |-> value,
                                      at |-> s.pos]),
                   !.slept = Append(@, PulseHold)])

\* time.sleep(us * MICROSECOND) after a send
Sleep(s, us) ==
    IF s.err # NoError \/ s.slept = <<>> THEN s
    ELSE [s EXCEPT !.slept[Len(s.slept)] = @ + us]

\* command(value)
Command(s, value) == Send(s, value, RS_INSTRUCTION)


(***************************************************************************)
(* Cursor addressing.                                                      *)
(***************************************************************************)
\* the table with the fourth row starting where the second does
RowOffsetsFourthOnSecond(c) == <<0, 64, c, 64>>

\* self.row_offsets, indexed from 0 in the code and from 1 here
RowOffsets(c) == <<0, 64, c, 64 + c>>

\* the range check with the upper bound of the column off by one
InRangeInclusive(value) ==
    /\ 0 <= value[1] /\ value[1] < rows
    /\ 0 <= value[2] /\ value[2] <= cols

\* 0 <= value[0] < self.rows and 0 <= value[1] < self.cols
InRange(value) ==
    /\ 0 <= value[1] /\ value[1] < rows
    /\ 0 <= value[2] /\ value[2] < cols

\* _LCD_SETDDRAMADDR | self.row_offsets[row] + col  (+ binds tighter than |)
DDRAMCommand(row, col) ==
    BitOr(LCD_SETDDRAMADDR, RowOffsets(cols)[row + 1] + col)

\* the setter sending the address without storing the position
SetCursorPosUnstored(s, value) ==
    IF s.err # NoError THEN s
    ELSE IF ~InRange(value)
    THEN Raise(s, "ValueError")
    ELSE Sleep(Command(s, DDRAMCommand(value[1], value[2])), 50)

\* the cursor_pos setter of BaseCharLCD, LCD.set_cursor_pos
SetCursorPos(s, value) ==
    IF s.err # NoError THEN s
    ELSE IF ~InRange(value)
    THEN Raise(s, "ValueError")
    ELSE Sleep(Command([s EXCEPT !.pos = value],
                       DDRAMCommand(value[1], value[2])), 50)

(***************************************************************************)
(* clear, home, shift_display.                                             *)
(***************************************************************************)
\* home(): ReturnHome, then the stored position is (0, 0), then 2 ms
Home(s) ==
    LET t == Command(s, LCD_RETURNHOME)
    IN  Then(t, Sleep([t EXCEPT !.pos = <<0, 0>>], 2000))

\* clear() addressing (0, 0) again after ClearDisplay
ClearThenAddress(s) ==
    SetCursorPos(Sleep(Command(s, LCD_CLEARDISPLAY), 2000), <<0, 0>>)

\* clear(): BaseCharLCD sends ClearDisplay, stores (0, 0) and sleeps 2 ms;
\* LCD sends ClearDisplay, sleeps 2 ms and then calls home()
Clear(s) ==
    LET t == Command(s, LCD_CLEARDISPLAY)
    IN  IF variant = "CPLCD"
        THEN Then(t, Sleep([t EXCEPT !.pos = <<0, 0>>], 2000))
        ELSE Then(t, Home(Sleep(t, 2000)))

Abs(n) == IF n < 0 THEN -n ELSE n

\* the shift command with the two directions exchanged
ShiftCommandReversed(amount) ==
    BitOr(BitOr(LCD_CURSORSHIFT, LCD_DISPLAYMOVE),
          IF amount > 0 THEN LCD_MOVELEFT ELSE LCD_MOVERIGHT)

\* the command shift_display sends abs(amount) times
ShiftCommand(amount) ==
    BitOr(BitOr(LCD_CURSORSHIFT, LCD_DISPLAYMOVE),
          IF amount > 0 THEN LCD_MOVERIGHT ELSE LCD_MOVELEFT)

RECURSIVE Repeat(_, _, _)
\* for i in range(n): self.command(value); time.sleep(50*MICROSECOND)
Repeat(s, value, n) ==
    IF n = 0 THEN s ELSE Repeat(Sleep(Command(s, value), 50), value, n - 1)

\* shift_display(amount)
ShiftDisplay(s, amount) ==
    IF amount = 0 THEN s ELSE Repeat(s, ShiftCommand(amount), Abs(amount))

(***************************************************************************)
(* write.                                                                  *)
(***************************************************************************)
\* the automatic line break staying on the last row instead of going to row 0
AutoLinebreakNoWrap(t, row, col) ==
    LET u == IF row < rows - 1
             THEN SetCursorPos(t, <<row + 1, col>>)
             ELSE SetCursorPos(t, <<row, col>>)
    IN  IF u.err # NoError THEN u ELSE [u EXCEPT !.recent = TRUE]

\* BaseCharLCD.write, lines 385-390 and 398-403: the automatic line break to
\* column col of the next row (the setter, then the flag)
AutoLinebreak(t, row, col) ==
    LET u == IF row < rows - 1
             THEN SetCursorPos(t, <<row + 1, col>>)
             ELSE SetCursorPos(t, <<0, col>>)
    IN  IF u.err # NoError THEN u ELSE [u EXCEPT !.recent = TRUE]

\* BaseCharLCD.write(value)
WriteCPLCD(s, value) ==
    LET row == s.pos[1]
        col == s.pos[2]
        t   == Send(s, value, RS_DATA)
    IN  IF t.err # NoError THEN t
        ELSE IF s.align = LCD_ENTRYLEFT
        THEN IF auto_linebreaks = FALSE \/ col < cols - 1
             THEN [t EXCEPT !.pos = <<row, col + 1>>, !.recent = FALSE]
             ELSE AutoLinebreak(t, row, 0)
        ELSE IF auto_linebreaks = FALSE \/ col > 0
             THEN [t EXCEPT !.pos = <<row, col - 1>>, !.recent = FALSE]
             ELSE AutoLinebreak(t, row, cols - 1)

\* LCD.write going past the bottom row instead of back to row 0
WriteLcdNoWrap(s, value) ==
    LET row == s.pos[1]
        col == s.pos[2]
        t   == Send(s, value, RS_DATA)
        to  == IF col < cols - 1
               THEN <<row, col + 1>>
               ELSE <<row + 1, 0>>
    IN  Then(t, SetCursorPos([t EXCEPT !.pos = to], to))

\* LCD.write(value): the position is stored, then set_cursor_pos sends it
WriteLcd(s, value) ==
    LET row == s.pos[1]
        col == s.pos[2]
        t   == Send(s, value, RS_DATA)
        to  == IF col < cols - 1
               THEN <<row, col + 1>>
               ELSE <<(row + 1) % rows, 0>>
    IN  Then(t, SetCursorPos([t EXCEPT !.pos = to], to))

Write(s, value) ==
    IF variant = "CPLCD" THEN WriteCPLCD(s, value) ELSE WriteLcd(s, value)

(***************************************************************************)
(* print.                                                                  *)
(***************************************************************************)
\* ord(char)
Ord(char) ==
    CASE char = "A" -> 65
      [] char = "B" -> 66
      [] char = "\n" -> 10
      [] char = "\r" -> 13

\* a manual line break where "\n" also returns to the first column
LineBreakToFirstColumn(s, char) ==
    LET row == s.pos[1]
        col == s.pos[2]
    IN  IF char = "\n"
        THEN IF row < rows - 1
             THEN SetCursorPos(s, <<row + 1, 0>>)
             ELSE SetCursorPos(s, <<0, 0>>)
        ELSE IF s.align = LCD_ENTRYLEFT
             THEN SetCursorPos(s, <<row, 0>>)
             ELSE SetCursorPos(s, <<row, cols - 1>>)

\* BaseCharLCD.print, lines 281-292: a manual line break is applied
LineBreak(s, char) ==
    LET row == s.pos[1]
        col == s.pos[2]
    IN  IF char = "\n"
        THEN IF row < rows - 1
             THEN SetCursorPos(s, <<row + 1, col>>)
             ELSE SetCursorPos(s, <<0, col>>)
        ELSE IF s.align = LCD_ENTRYLEFT
             THEN SetCursorPos(s, <<row, 0>>)
             ELSE SetCursorPos(s, <<row, cols - 1>>)

\* the loop applying every manual line break, also after an automatic one
PrintCharNeverSwallows(st, char) ==
    IF char \notin {"\n", "\r"}
    THEN [s |-> Write(st.s, Ord(char)), ignored |-> None]
    ELSE [s |-> LineBreak(st.s, char), ignored |-> st.ignored]

\* the loop swallowing one break character only, not the different one after it
PrintCharSwallowsOne(st, char) ==
    IF char \notin {"\n", "\r"}
    THEN [s |-> Write(st.s, Ord(char)), ignored |-> None]
    ELSE IF st.s.recent = TRUE /\ st.ignored = None
    THEN [s |-> st.s, ignored |-> char]
    ELSE [s |-> LineBreak(st.s, char), ignored |-> st.ignored]

\* the loop swallowing every break character that follows an automatic break
PrintCharSwallowsAll(st, char) ==
    IF char \notin {"\n", "\r"}
    THEN [s |-> Write(st.s, Ord(char)), ignored |-> None]
    ELSE IF st.s.recent = TRUE
    THEN [s |-> st.s, ignored |-> char]
    ELSE [s |-> LineBreak(st.s, char), ignored |-> st.ignored]

\* one turn of the loop of BaseCharLCD.print; st = [s: object, ignored: local]
PrintCharCPLCD(st, char) ==
    IF char \notin {"\n", "\r"}
    THEN [s |-> Write(st.s, Ord(char)), ignored |-> None]
    ELSE IF st.s.recent = TRUE /\ st.ignored = None
    THEN [s |-> st.s, ignored |-> char]
    ELSE IF st.s.recent = TRUE /\ st.ignored # char
    THEN [s |-> st.s, ignored |-> None]
    ELSE [s |-> LineBreak(st.s, char), ignored |-> st.ignored]

\* one turn of the loop of LCD.print
PrintCharLcd(st, char) ==
    IF char = "\n"
    THEN [s |-> SetCursorPos(st.s, <<(st.s.pos[1] + 1) % rows, 0>>),
          ignored |-> st.ignored]
    ELSE [s |-> Write(st.s, Ord(char)), ignored |-> st.ignored]

PrintChar(st, char) ==
    IF variant = "CPLCD" THEN PrintCharCPLCD(st, char) ELSE PrintCharLcd(st, char)

RECURSIVE PrintFrom(_, _, _)
\* for char in value: ...  (an exception ends the loop); the result is the
\* object together with the local `ignored` as the loop leaves them
PrintFrom(st, value, i) ==
    IF i > Len(value) \/ st.s.err # NoError
    THEN st
    ELSE PrintFrom(PrintChar(st, value[i]), value, i + 1)

\* print(value)
PrintString(s, value) == PrintFrom([s |-> s, ignored |-> None], value, 1).s

(***************************************************************************)
(* create_char.                                                            *)
(***************************************************************************)
RECURSIVE SendRows(_, _, _)
\* for row in bitmap: self._send(row, _RS_DATA)
SendRows(s, bitmap, i) ==
    IF i > Len(bitmap) THEN s
    ELSE SendRows(Send(s, bitmap[i], RS_DATA), bitmap, i + 1)

\* _LCD_SETCGRAMADDR | location << 3  (<< binds tighter than |)
CGRAMCommand(location) == BitOr(LCD_SETCGRAMADDR, ShiftLeft(location, 3))

\* create_char accepting location 8
CreateCharUpTo8(s, location, bitmap) ==
    IF ~(0 <= location /\ location <= 8) THEN Raise(s, "ValueError")
    ELSE IF Len(bitmap) # 8 THEN Raise(s, "ValueError")
    ELSE LET pos == s.pos
         IN  SetCursorPos(SendRows(Command(s, CGRAMCommand(location)), bitmap, 1),
                          pos)

\* create_char(location, bitmap)
CreateChar(s, location, bitmap) ==
    IF ~(0 <= location /\ location <= 7) THEN Raise(s, "ValueError")
    ELSE IF Len(bitmap) # 8 THEN Raise(s, "ValueError")
    ELSE LET pos == s.pos
         IN  SetCursorPos(SendRows(Command(s, CGRAMCommand(location)), bitmap, 1),
                          pos)

(***************************************************************************)
(* Property setters with bus traffic.                                      *)
(***************************************************************************)
\* the text_align_mode setter
SetTextAlignMode(s, value) ==
    Sleep(Command([s EXCEPT !.align = value],
                  BitOr(BitOr(LCD_ENTRYMODESET, value), s.shift)), 50)

\* I2CLCD._i2c_write(value): one byte, no send
I2CWrite(s, value) == WriteBytes(s, <<value>>)

\* the setter writing the pin state it had before the assignment
SetBacklightStale(s, value) ==
    IF variant = "CPLCD"
    THEN LET b == IF value THEN LCD_BACKLIGHT ELSE LCD_NOBACKLIGHT
         IN  I2CWrite([s EXCEPT !.bl = b], s.bl)
    ELSE Raise(s, "NameError")

\* the backlight_on setter of I2CLCD; the backlight setter of LCD_I2C reads
\* the class attribute _BACKLIGHT_VALUES as a global name
SetBacklight(s, value) ==
    IF variant = "CPLCD"
    THEN LET b == IF value THEN LCD_BACKLIGHT ELSE LCD_NOBACKLIGHT
         IN  I2CWrite([s EXCEPT !.bl = b], b)
    ELSE Raise(s, "NameError")


(***************************************************************************)
(* Construction.                                                           *)
(***************************************************************************)
Variants == {"CPLCD", "lcd"}

\* rows: "usually 1, 2 or 4"
RowChoices == {1, 2, 4}

\* dotsize / char_height arguments: the two allowed ones and one that is not
DotsizeChoices == {8, 9, 10}

\* the geometries construction is tried with (a dotsize other than 8 only on
\* the widest display)
Geometries ==
    {g \in [cols : 1..MaxCols, rows : RowChoices, dotsize : DotsizeChoices] :
        g.dotsize = 8 \/ g.cols = MaxCols}

\* every geometry the constructor can be called with on a small display: rows
\* that are not 1, 2 or 4 and every dotsize with every number of rows
AnyGeometries == [cols : 1..MaxCols, rows : 1..4, dotsize : DotsizeChoices]

\* self.data_bus_mode as BaseCharLCD.__init__ / LCD.__init__ read it: I2CLCD
\* (line 65) and LCD_I2C (data_bus_mode property) always give LCD_4BITMODE; a
\* subclass can give LCD_8BITMODE or a value that is neither
BusModeChoices == {LCD_4BITMODE, LCD_8BITMODE, 1}

\* the controller after power-on: address counter 0 in DDRAM, incrementing
PowerOn == [ac |-> 0, cgram |-> FALSE, incr |-> TRUE]

\* nothing has happened since an automatic line break
NoHistory == [moved |-> FALSE, ignored |-> None]

\* displayfunction of __init__
DisplayFunction(r, d) ==
    LET base  == BitOr(data_bus_mode, LCD_5x8DOTS)
        lines == IF r = 1 THEN BitOr(base, LCD_1LINE)
                 ELSE IF r \in {2, 4} THEN BitOr(base, LCD_2LINE)
                 ELSE base
    IN  IF d = 10 THEN BitOr(lines, LCD_5x10DOTS) ELSE lines

InitFields ==
    /\ phase = "PoweredOff"
    /\ cursor_pos = Unset
    /\ text_align_mode = Unset
    /\ display_shift_mode = Unset
    /\ display_mode = Unset
    /\ cursor_mode = Unset
    /\ recent_auto_linebreak = Unset
    /\ backlight_pin_state = Unset
    /\ connected = FALSE
    /\ slept = <<>>
    /\ hw = PowerOn
    /\ hist = NoHistory
    /\ bus = <<>>
    /\ log = <<>>
    /\ err = NoError
    /\ fault = NoFault
    /\ op = [name |-> "init", args |-> <<>>]
    /\ pre = [pos |-> Unset, recent |-> Unset]

\* I2CLCD(address, cols, rows, dotsize, auto_linebreaks, backlight_on) is called
InitCPLCD ==
    /\ variant = "CPLCD"
    /\ \E g \in Geometries :
          /\ cols = g.cols
          /\ rows = g.rows
          /\ dotsize = g.dotsize
    /\ auto_linebreaks \in BOOLEAN
    /\ data_bus_mode = LCD_4BITMODE
    /\ InitFields

\* LCD_I2C(i2c, address, num_cols, num_rows, char_height) is called
InitLcd ==
    /\ variant = "lcd"
    /\ \E g \in Geometries :
          /\ cols = g.cols
          /\ rows = g.rows
          /\ dotsize = g.dotsize
    /\ auto_linebreaks = Unset
    /\ data_bus_mode = LCD_4BITMODE
    /\ InitFields

Init == InitCPLCD \/ InitLcd

\* one step of __init__
Step(from, to, t) ==
    /\ phase = from
    /\ phase' = to
    /\ Commit(t)
    /\ UNCHANGED <<config, op, pre, hw, hist, fault>>

\* I2CLCD.__init__ lines 62-68 and BaseCharLCD.__init__ lines 113-136;
\* LCD.__init__ lines 105-124
Configure ==
    \/ /\ variant = "CPLCD"
       /\ \E backlight_on \in BOOLEAN :
            LET s == [Self EXCEPT
                        !.bl = IF backlight_on THEN LCD_BACKLIGHT
                               ELSE LCD_NOBACKLIGHT]
            IN  IF dotsize \notin {8, 10}
                THEN Step("PoweredOff", "Failed", Raise(s, "ValueError"))
                ELSE Step("PoweredOff", "Configured", [s EXCEPT !.recent = FALSE])
    \/ /\ variant = "lcd"
       /\ IF dotsize \notin {8, 10}
          THEN Step("Connected", "Failed", Raise(Self, "ValueError"))
          ELSE Step("Connected", "Configured", Self)

\* BaseCharLCD.__init__ line 139 (_init_connection);
\* LCD_I2C.__init__ lines 305-308
Connect ==
    \/ /\ variant = "CPLCD"
       /\ Step("Configured", "Connected", [Self EXCEPT !.conn = TRUE])
    \/ /\ variant = "lcd"
       /\ Step("PoweredOff", "Connected",
               [Self EXCEPT !.conn = TRUE, !.bl = LCD_BACKLIGHT])

\* the phase the reset sequence starts from
BeforeReset == IF variant = "CPLCD" THEN "Connected" ELSE "Configured"

\* BaseCharLCD sends 0x03 inside its 4-bit branch, LCD before the branch
ResetsSent == variant = "lcd" \/ data_bus_mode = LCD_4BITMODE

\* self.command(0x03); time.sleep(4.5*MILLISECOND)
Reset1 ==
    /\ ResetsSent
    /\ Step(BeforeReset, "Reset1", Sleep(Command(Self, 3), 4500))

Reset2 ==
    /\ ResetsSent
    /\ Step("Reset1", "Reset2", Sleep(Command(Self, 3), 4500))

\* the third self.command(0x03): no sleep follows it in LCD.__init__ unless
\* the 4-bit branch is taken
Reset3 ==
    /\ ResetsSent
    /\ Step("Reset2", "Reset3",
            IF variant = "CPLCD"
            THEN Sleep(Command(Self, 3), 100)
            ELSE Command(Self, 3))

\* the 8-bit branch: 0x30, 4.5 ms, 0x30, 100 us, 0x30, all through command()
EightBitResets(s) ==
    Command(Sleep(Command(Sleep(Command(s, 48), 4500), 48), 100), 48)

\* the branch on self.data_bus_mode: command(0x02) in 4-bit mode, the three
\* 0x30 in 8-bit mode, ValueError for any other value
SelectMode ==
    LET from == IF ResetsSent THEN "Reset3" ELSE "Connected"
    IN  IF data_bus_mode = LCD_4BITMODE
        THEN Step(from, "ModeSelected",
                  IF variant = "CPLCD"
                  THEN Command(Self, 2)
                  ELSE Command(Sleep(Self, 100), 2))
        ELSE IF data_bus_mode = LCD_8BITMODE
        THEN Step(from, "ModeSelected", EightBitResets(Self))
        ELSE Step(from, "Failed", Raise(Self, "ValueError"))

\* self.command(_LCD_FUNCTIONSET | displayfunction); 50 us
FunctionSet ==
    Step("ModeSelected", "FunctionSet",
         Sleep(Command(Self, BitOr(LCD_FUNCTIONSET,
                                   DisplayFunction(rows, dotsize))), 50))

\* the display mode: display on, cursor hidden; 50 us
DisplayControl ==
    LET s == [Self EXCEPT !.dmode = LCD_DISPLAYON,
                          !.cmode = BitOr(LCD_CURSOROFF, LCD_BLINKOFF)]
        t == Sleep(Command(s, BitOr(BitOr(LCD_DISPLAYCONTROL, s.dmode),
                                    s.cmode)), 50)
    IN  IF variant = "CPLCD"
        THEN Step("FunctionSet", "DisplayControlSet", t)
        ELSE Step("EntryModeSet", "DisplayControlSet", t)

\* construction calling home() where it should call clear()
InitClearByHome ==
    IF variant = "CPLCD"
    THEN Step("DisplayControlSet", "Cleared", Home(Self))
    ELSE Step("DisplayControlSet", "Ready", Home(Self))

\* self.clear(): the last step of LCD.__init__
InitClear ==
    IF variant = "CPLCD"
    THEN Step("DisplayControlSet", "Cleared", Clear(Self))
    ELSE Step("DisplayControlSet", "Ready", Clear(Self))

\* the entry mode: the last step of BaseCharLCD.__init__ (lines 175-178);
\* LCD.__init__ line 151
EntryMode ==
    IF variant = "CPLCD"
    THEN LET s == [Self EXCEPT !.align = LCD_ENTRYLEFT,
                               !.shift = LCD_ENTRYSHIFTDECREMENT,
                               !.pos = <<0, 0>>]
         IN  Step("Cleared", "Ready",
                  Sleep(Command(s, BitOr(BitOr(LCD_ENTRYMODESET, s.align),
                                         s.shift)), 50))
    ELSE Step("FunctionSet", "EntryModeSet",
              Sleep(Command(Self, BitOr(LCD_ENTRYMODESET, LCD_ENTRYLEFT)), 50))

Construction ==
    \/ Configure
    \/ Connect
    \/ Reset1
    \/ Reset2
    \/ Reset3
    \/ SelectMode
    \/ FunctionSet
    \/ DisplayControl
    \/ InitClear
    \/ EntryMode


(***************************************************************************)
(* The operations of a constructed display.                                *)
(***************************************************************************)
\* the columns the model follows the cursor to
InBox(pos) == -MaxOverrun <= pos[2] /\ pos[2] <= cols - 1 + MaxOverrun

\* no call is in progress: the trace of the last one has been dropped
Idle == [name |-> "idle", args |-> <<>>]

NoSnapshot == [pos |-> Unset, recent |-> Unset]

\* a method call on the constructed object, with result t
Call(name, args, t) ==
    /\ phase = "Ready"
    /\ op = Idle
    /\ InBox(t.pos)
    /\ Commit(t)
    /\ op' = [name |-> name, args |-> args]
    /\ pre' = Snapshot
    /\ UNCHANGED <<config, phase, hw, hist, fault>>

\* lcd.cursor_pos = (r, c) / lcd.set_cursor_pos(r, c), in and out of range
DoSetCursor ==
    \E r \in -1..rows, c \in -1..cols :
        Call("set_cursor", <<r, c>>, SetCursorPos(Begin, <<r, c>>))

\* the bytes write is called with: "A" and 0xA5
WriteValues == {65, 165}

DoWrite ==
    \E value \in WriteValues :
        Call("write", <<value>>, Write(Begin, value))

SeqsUpTo(S, n) == UNION {[1..k -> S] : k \in 0..n}

\* a line of exactly c printable characters
Fill(c) == [i \in 1..c |-> "A"]

\* every short string, and a full line followed by line breaks and then by
\* nothing or by "B"
PrintInputs ==
    SeqsUpTo({"A", "\n", "\r"}, MaxStr)
    \cup {Fill(cols) \o b \o e : b \in SeqsUpTo({"\n", "\r"}, MaxTail - 1),
                                 e \in {<<>>, <<"B">>}}

DoPrint ==
    \E value \in PrintInputs :
        Call("print", value, PrintString(Begin, value))

DoClear == Call("clear", <<>>, Clear(Begin))

DoHome == Call("home", <<>>, Home(Begin))

DoShiftDisplay ==
    \E amount \in -MaxShift..MaxShift :
        Call("shift_display", <<amount>>, ShiftDisplay(Begin, amount))

\* the docstring's smiley, a bitmap that is too short and one that is too long
Smiley == <<0, 10, 10, 0, 17, 17, 14, 0>>

CreateCharInputs ==
    {<<l, Smiley>> : l \in -1..8}
    \cup {<<0, SubSeq(Smiley, 1, 7)>>, <<0, Smiley \o <<0>> >>}

DoCreateChar ==
    \E a \in CreateCharInputs :
        Call("create_char", a, CreateChar(Begin, a[1], a[2]))

\* lcd.text_align_mode = value (BaseCharLCD only)
DoSetTextAlign ==
    /\ variant = "CPLCD"
    /\ \E value \in {LCD_ENTRYLEFT, LCD_ENTRYRIGHT} :
        Call("text_align_mode", <<value>>, SetTextAlignMode(Begin, value))

\* lcd.backlight_on = value / lcd.backlight = value
DoSetBacklight ==
    \E value \in BOOLEAN :
        Call("backlight", <<value>>, SetBacklight(Begin, value))

\* The call has returned (or raised) and the caller goes on: bus, log, err,
\* op and pre describe one call (construction included), and the next call
\* starts a new trace.  The fields of the object stay as the call left them.
Returning ==
    /\ phase = "Ready"
    /\ op # Idle
    /\ op' = Idle
    /\ pre' = NoSnapshot
    /\ bus' = <<>>
    /\ log' = <<>>
    /\ slept' = <<>>
    /\ err' = NoError
    /\ fault' = NoFault
    /\ UNCHANGED <<config, phase, cursor_pos, text_align_mode,
                   display_shift_mode, display_mode, cursor_mode,
                   recent_auto_linebreak, backlight_pin_state, connected>>

Return ==
    /\ Returning
    /\ UNCHANGED <<hw, hist>>

Operation ==
    \/ DoSetCursor
    \/ DoWrite
    \/ DoPrint
    \/ DoClear
    \/ DoHome
    \/ DoShiftDisplay
    \/ DoCreateChar
    \/ DoSetTextAlign
    \/ DoSetBacklight

Next == Construction \/ Operation \/ Return

Spec == Init /\ [][Next]_vars


(***************************************************************************)
(* The sender on its own: every byte value, both register-select flags,    *)
(* on one geometry.                                                        *)
(***************************************************************************)
\* lcd._send(value, rs_mode) / lcd.send(value, rs_mode)
DoSend ==
    \E value \in 0..255, rs_mode \in {RS_INSTRUCTION, RS_DATA} :
        Call("send", <<value, rs_mode>>, Send(Begin, value, rs_mode))

InitSend ==
    /\ Init
    /\ cols = MaxCols
    /\ rows = 2
    /\ dotsize = 8
    /\ variant = "CPLCD" => auto_linebreaks = TRUE

NextSend == Construction \/ DoSend \/ DoSetBacklight \/ Return

SpecSend == InitSend /\ [][NextSend]_vars

(***************************************************************************)
(* Construction on its own: every geometry and every data bus mode the     *)
(* constructors of BaseCharLCD and LCD can be entered with.                *)
(***************************************************************************)
InitAny ==
    /\ variant \in Variants
    /\ \E g \in AnyGeometries :
          /\ cols = g.cols
          /\ rows = g.rows
          /\ dotsize = g.dotsize
    /\ IF variant = "CPLCD"
       THEN auto_linebreaks \in BOOLEAN
       ELSE auto_linebreaks = Unset
    /\ data_bus_mode \in BusModeChoices
    /\ InitFields

NextInit == Construction

SpecInit == InitAny /\ [][NextInit]_vars

(***************************************************************************)
(* An unreliable bus: before a call, the environment may decide that the   *)
(* i2c_device.write numbered k of that call raises.  The driver has no try *)
(* statement, so the exception leaves the call at that write.              *)
(***************************************************************************)
\* the latest write that may be refused: the first of a third send
MaxFault == 13

\* the bus will refuse the k-th byte written by the next call
Arm ==
    /\ phase = "Ready"
    /\ op = Idle
    /\ fault = NoFault
    /\ \E k \in 1..MaxFault : fault' = k
    /\ UNCHANGED <<config, phase, cursor_pos, text_align_mode,
                   display_shift_mode, display_mode, cursor_mode,
                   recent_auto_linebreak, backlight_pin_state, connected,
                   slept, hw, hist, bus, log, err, op, pre>>

InitFail == Init /\ cols = 2 /\ rows = 2 /\ dotsize = 8

NextFail == Construction \/ Arm \/ Operation \/ Return

SpecFail == InitFail /\ [][NextFail]_vars

(***************************************************************************)
(* Cursor addressing on displays of every width up to 20 columns: the      *)
(* constructions and the cursor_pos setter only.                           *)
(***************************************************************************)
\* the widest display: 20 columns
MaxAddrCols == 20

InitAddr ==
    /\ variant \in Variants
    /\ cols \in 1..MaxAddrCols
    /\ rows \in RowChoices
    /\ dotsize = 8
    /\ IF variant = "CPLCD"
       THEN auto_linebreaks = TRUE
       ELSE auto_linebreaks = Unset
    /\ data_bus_mode = LCD_4BITMODE
    /\ InitFields

\* lcd.cursor_pos = (r, c) on the object as construction left it: the address
\* sent does not depend on where the cursor was
SetCursorFromHome ==
    /\ cursor_pos = <<0, 0>>
    /\ DoSetCursor

NextAddr == Construction \/ SetCursorFromHome \/ Return

SpecAddr == InitAddr /\ [][NextAddr]_vars

(***************************************************************************)
(* The HD44780 behind the expander, as far as its address counter goes:    *)
(* SetDDRAMAddr and SetCGRAMAddr load the counter, ClearDisplay and        *)
(* ReturnHome reset it to DDRAM address 0, EntryModeSet chooses the        *)
(* direction, a cursor shift moves it, and every data write increments or  *)
(* decrements it.  The counter has seven bits.                             *)
(***************************************************************************)
\* the width of the address counter
ACSize == 128

\* the controller executing one send e of the log
Execute(h, e) ==
    IF e.rs = RS_DATA
    THEN [h EXCEPT !.ac = (IF h.incr THEN @ + 1 ELSE @ - 1 + ACSize) % ACSize]
    ELSE IF e.value >= LCD_SETDDRAMADDR
    THEN [h EXCEPT !.ac = e.value - LCD_SETDDRAMADDR, !.cgram = FALSE]
    ELSE IF e.value >= LCD_SETCGRAMADDR
    THEN [h EXCEPT !.ac = e.value - LCD_SETCGRAMADDR, !.cgram = TRUE]
    ELSE IF e.value >= LCD_FUNCTIONSET
    THEN h
    ELSE IF e.value >= LCD_CURSORSHIFT
    THEN IF BitAnd(e.value, LCD_DISPLAYMOVE) # 0 THEN h
         ELSE [h EXCEPT !.ac = (IF BitAnd(e.value, LCD_MOVERIGHT) # 0
                                THEN @ + 1 ELSE @ - 1 + ACSize) % ACSize]
    ELSE IF e.value >= LCD_DISPLAYCONTROL
    THEN h
    ELSE IF e.value >= LCD_ENTRYMODESET
    THEN [h EXCEPT !.incr = (BitAnd(e.value, LCD_ENTRYLEFT) # 0)]
    ELSE IF e.value >= LCD_CLEARDISPLAY
    THEN [h EXCEPT !.ac = 0, !.cgram = FALSE]
    ELSE h

RECURSIVE Replay(_, _, _)
\* the controller after the sends l[i], l[i+1], ...
Replay(h, l, i) ==
    IF i > Len(l) THEN h ELSE Replay(Execute(h, l[i]), l, i + 1)

\* the controller now: hw is the controller when the call began
Controller == Replay(hw, log, 1)

(***************************************************************************)
(* The history of the line-break state: whether set_cursor, clear or home  *)
(* has been called since the write that wrapped, and the value the local   *)
(* `ignored` of the last print call had when that call ended.              *)
(***************************************************************************)
\* the object as it was when the print call began
EntryObject == [Begin EXCEPT !.pos = pre.pos, !.recent = pre.recent]

Printable(value) == \E i \in DOMAIN value : value[i] \notin {"\n", "\r"}

\* the history after the call that is returning
NoteHistory ==
    IF variant = "lcd" \/ recent_auto_linebreak # TRUE THEN NoHistory
    ELSE CASE op.name = "write" -> NoHistory
           [] op.name = "print" ->
                [moved   |-> IF Printable(op.args) THEN FALSE ELSE hist.moved,
                 ignored |-> PrintFrom([s |-> EntryObject, ignored |-> None],
                                       op.args, 1).ignored]
           [] op.name \in {"clear", "home"} ->
                [moved |-> TRUE, ignored |-> None]
           [] op.name = "set_cursor" ->
                IF err = NoError THEN [moved |-> TRUE, ignored |-> None]
                ELSE hist
           [] OTHER -> hist

\* Return, also bringing the controller and the history up to date
ReturnTracked ==
    /\ Returning
    /\ hw' = Controller
    /\ hist' = NoteHistory

\* the displays of at most two columns and two rows; the alignment stays
\* Left, as construction sets it
InitTrack ==
    /\ Init
    /\ cols <= 2
    /\ rows <= 2

NextTrack ==
    \/ Construction
    \/ DoSetCursor
    \/ DoWrite
    \/ DoPrint
    \/ DoClear
    \/ DoHome
    \/ DoCreateChar
    \/ ReturnTracked

SpecTrack == InitTrack /\ [][NextTrack]_vars

(***************************************************************************)
(* Vocabulary of the properties.                                           *)
(***************************************************************************)
\* the sends of the operation as <<register select, value>> pairs
Cmds(l) == [i \in DOMAIN l |-> <<l[i].rs, l[i].value>>]

IsPrefix(a, b) == Len(a) <= Len(b) /\ a = SubSeq(b, 1, Len(a))

\* a cell of the display
Inside(p) == p[1] \in 0..(rows - 1) /\ p[2] \in 0..(cols - 1)

\* the DDRAM address of a cell, from the row-offset table of the specification
CellAddress(p) ==
    (CASE p[1] = 0 -> 0
       [] p[1] = 1 -> 64
       [] p[1] = 2 -> cols
       [] p[1] = 3 -> 64 + cols) + p[2]

\* a SetDDRAMAddr command for a cell, sent with that cell stored
Addressed(p) ==
    [rs |-> 0, value |-> BitOr(128, CellAddress(p)), at |-> p]

\* a data byte sent with the cursor stored at p
DataAt(value, p) == [rs |-> 1, value |-> value, at |-> p]

\* a constructed BaseCharLCD has just returned from the call name
Returned(name) == phase = "Ready" /\ op.name = name

\* the object was, when the call began, as construction leaves it
FromFresh ==
    /\ pre.pos = <<0, 0>>
    /\ pre.recent = FALSE
    /\ text_align_mode = LCD_ENTRYLEFT


(***************************************************************************)
(* C1.  set_cursor(r, c) to a cell of the display, from any state: the     *)
(* stored position read afterwards is (r, c), and the one command sent is  *)
(* SetDDRAMAddr (0x80) OR'd with row_offset[r] + c.                        *)
(***************************************************************************)
C1_SetCursorReadsBack ==
    (Returned("set_cursor") /\ Inside(op.args)) =>
        /\ err = NoError
        /\ cursor_pos = op.args
        /\ log = <<Addressed(op.args)>>

\* the cursor is moved from another cell to the last cell of a display with
\* several rows and columns
C1_Witness ==
    /\ Returned("set_cursor")
    /\ rows > 1 /\ cols > 1
    /\ op.args = <<rows - 1, cols - 1>>
    /\ pre.pos # op.args
    /\ cursor_pos = op.args

(***************************************************************************)
(* C2.  set_cursor(r, c) with r outside 0..rows-1 or c outside 0..cols-1   *)
(* fails with a range error (ValueError), leaves the stored position as it *)
(* was and writes no byte to the bus.                                      *)
(***************************************************************************)
C2_OutOfRangeRejected ==
    (Returned("set_cursor") /\ ~Inside(op.args)) =>
        /\ err = "ValueError"
        /\ cursor_pos = pre.pos
        /\ bus = <<>>
        /\ log = <<>>

\* the first column past the row is refused while the cursor is elsewhere
C2_Witness ==
    /\ Returned("set_cursor")
    /\ op.args = <<0, cols>>
    /\ pre.pos # <<0, 0>>
    /\ err = "ValueError"

(***************************************************************************)
(* C3.  BaseCharLCD with auto_linebreaks: a write at (row, cols-1) under   *)
(* Left alignment moves the cursor to ((row+1) mod rows, 0) through a      *)
(* SetDDRAMAddr command and sets recent_auto_linebreak; under Right        *)
(* alignment a write at (row, 0) moves it to ((row+1) mod rows, cols-1)    *)
(* and sets the flag.  Every row, the last one included.                   *)
(***************************************************************************)
C3_WriteWraps ==
    (Returned("write") /\ variant = "CPLCD" /\ auto_linebreaks = TRUE) =>
        LET row   == pre.pos[1]
            left  == <<(row + 1) % rows, 0>>
            right == <<(row + 1) % rows, cols - 1>>
        IN  /\ (text_align_mode = LCD_ENTRYLEFT /\ pre.pos[2] = cols - 1) =>
                  /\ cursor_pos = left
                  /\ recent_auto_linebreak = TRUE
                  /\ log = <<DataAt(op.args[1], pre.pos), Addressed(left)>>
            /\ (text_align_mode = LCD_ENTRYRIGHT /\ pre.pos[2] = 0) =>
                  /\ cursor_pos = right
                  /\ recent_auto_linebreak = TRUE
                  /\ log = <<DataAt(op.args[1], pre.pos), Addressed(right)>>

\* a right-aligned write in the first column of the last of four rows
C3_Witness ==
    /\ Returned("write")
    /\ variant = "CPLCD" /\ auto_linebreaks = TRUE
    /\ rows = 4 /\ cols > 1
    /\ text_align_mode = LCD_ENTRYRIGHT
    /\ pre.pos = <<3, 0>>
    /\ cursor_pos = <<0, cols - 1>>
    /\ recent_auto_linebreak = TRUE


(***************************************************************************)
(* A fresh left-aligned BaseCharLCD with auto_linebreaks and rows > 1      *)
(* prints a line of exactly cols characters: cols data bytes along row 0   *)
(* and the SetDDRAMAddr of the automatic line break to (1, 0).             *)
(***************************************************************************)
FilledLine ==
    [i \in 1..cols |-> DataAt(65, <<0, i - 1>>)] \o <<Addressed(<<1, 0>>)>>

\* print(Fill(cols) followed by tail) has returned on such a display
PrintedAfterFill(tail) ==
    /\ Returned("print")
    /\ variant = "CPLCD"
    /\ auto_linebreaks = TRUE
    /\ rows > 1
    /\ FromFresh
    /\ op.args = Fill(cols) \o tail

\* what printing "B" at (1, 0) sends: on a display one column wide the write
\* of "B" is itself at the last column and breaks the line again
BAfterFill ==
    <<DataAt(66, <<1, 0>>)>>
    \o (IF cols = 1 THEN <<Addressed(<<2 % rows, 0>>)>> ELSE <<>>)

(***************************************************************************)
(* C4 as stated.  print("A"*cols + "\n" + "B"): the "\n" is swallowed, "B" *)
(* is sent as data with the cursor at (1, 0), and the cursor ends at       *)
(* (1, 1).                                                                 *)
(***************************************************************************)
C4_AsStated ==
    PrintedAfterFill(<<"\n", "B">>) =>
        /\ SubSeq(log, 1, cols + 2) = FilledLine \o <<DataAt(66, <<1, 0>>)>>
        /\ cursor_pos = <<1, 1>>

(***************************************************************************)
(* C4 amended.  print("A"*cols + "\n" + "B"): the "\n" is swallowed (no    *)
(* SetDDRAMAddr is sent for it), "B" is sent as data with the cursor at    *)
(* (1, 0), and the cursor ends at (1, 1) when cols > 1; when cols = 1 the  *)
(* write of "B" fills row 1 and the cursor ends at (2 mod rows, 0).        *)
(***************************************************************************)
C4_NewlineAfterFillSwallowed ==
    PrintedAfterFill(<<"\n", "B">>) =>
        /\ err = NoError
        /\ log = FilledLine \o BAfterFill
        /\ cursor_pos = IF cols > 1 THEN <<1, 1>> ELSE <<2 % rows, 0>>

\* the fixture on a display with several columns
C4_Witness ==
    /\ PrintedAfterFill(<<"\n", "B">>)
    /\ cols > 1
    /\ cursor_pos = <<1, 1>>
    /\ Len(log) = cols + 2

(***************************************************************************)
(* C5.  print("A"*cols + "\r\n" + "B") and print("A"*cols + "\n\r" + "B"): *)
(* both break characters are swallowed (nothing is sent for them) and "B"  *)
(* is sent as data with the cursor at (1, 0).                              *)
(***************************************************************************)
C5_BreakPairSwallowed ==
    \A tail \in {<<"\r", "\n", "B">>, <<"\n", "\r", "B">>} :
        PrintedAfterFill(tail) =>
            /\ err = NoError
            /\ log = FilledLine \o BAfterFill

\* "\r\n" after the filled line, "B" landing at (1, 0)
C5_Witness ==
    /\ PrintedAfterFill(<<"\r", "\n", "B">>)
    /\ cols > 1
    /\ log[cols + 2] = DataAt(66, <<1, 0>>)
    /\ cursor_pos = <<1, 1>>

(***************************************************************************)
(* C6 as stated.  clear() stores (0, 0) and sends exactly one command,     *)
(* ClearDisplay (0x01).                                                    *)
(***************************************************************************)
C6_AsStated ==
    Returned("clear") =>
        /\ cursor_pos = <<0, 0>>
        /\ Cmds(log) = << <<0, 1>> >>

(***************************************************************************)
(* C6 amended.  clear() stores (0, 0) from any position and sends no       *)
(* SetDDRAMAddr; BaseCharLCD.clear sends exactly one command, ClearDisplay *)
(* (0x01); LCD.clear sends ClearDisplay and then ReturnHome (0x02).        *)
(***************************************************************************)
C6_ClearResetsCursor ==
    Returned("clear") =>
        /\ err = NoError
        /\ cursor_pos = <<0, 0>>
        /\ variant = "CPLCD" => Cmds(log) = << <<0, 1>> >>
        /\ variant = "lcd" => Cmds(log) = << <<0, 1>>, <<0, 2>> >>

\* BaseCharLCD.clear with the cursor away from (0, 0)
C6_Witness ==
    /\ Returned("clear")
    /\ variant = "CPLCD"
    /\ pre.pos[1] > 0 /\ pre.pos[2] > 0
    /\ cursor_pos = <<0, 0>>

(***************************************************************************)
(* C7.  From every reachable state, create_char with a location in 0..7    *)
(* and a bitmap of 8 rows sends SetCGRAMAddr | (location << 3), then 8     *)
(* data bytes, then as its last command SetDDRAMAddr for the position      *)
(* saved at entry, and returns with the stored position unchanged.         *)
(***************************************************************************)
C7_CreateCharRestoresCursor ==
    (/\ Returned("create_char")
     /\ op.args[1] \in 0..7
     /\ Len(op.args[2]) = 8) =>
        /\ err = NoError
        /\ cursor_pos = pre.pos
        /\ Len(log) = 10
        /\ Cmds(log) = << <<0, 64 + 8 * op.args[1]>> >>
                       \o [i \in 1..8 |-> <<1, op.args[2][i]>>]
                       \o << <<0, BitOr(128, CellAddress(pre.pos))>> >>

(***************************************************************************)
(* C10.  Construction of a BaseCharLCD sends, in this order and nothing    *)
(* else: 0x03, 0x03, 0x03, 0x02, FunctionSet, DisplayControl (display on,  *)
(* cursor hidden), ClearDisplay, EntryModeSet (Left, cursor moves); it     *)
(* ends Ready with the cursor at (0, 0); no operation starts before the    *)
(* EntryModeSet command has been sent.                                     *)
(***************************************************************************)
ExpectedInit ==
    << <<0, 3>>, <<0, 3>>, <<0, 3>>, <<0, 2>>,
       <<0, 32 + (IF rows = 1 THEN 0 ELSE 8) + (IF dotsize = 10 THEN 4 ELSE 0)>>,
       <<0, 12>>, <<0, 1>>, <<0, 6>> >>

C10_InitSequence ==
    variant = "CPLCD" =>
        /\ phase # "Ready" => op.name = "init"
        /\ op.name = "init" =>
              /\ IsPrefix(Cmds(log), ExpectedInit)
              /\ phase = "Ready" <=> Len(log) = 8
              /\ phase = "Ready" => cursor_pos = <<0, 0>> /\ err = NoError

\* a four-row BaseCharLCD has just been constructed
C10_Witness ==
    /\ variant = "CPLCD"
    /\ phase = "Ready"
    /\ op.name = "init"
    /\ rows = 4
    /\ Cmds(log) = ExpectedInit


(***************************************************************************)
(* Expander words, from the bit layout of the specification:               *)
(* 7..4 data, 3 Backlight, 2 Enable, 1 ReadWrite, 0 RegisterSelect.        *)
(***************************************************************************)
EnableCleared(w) == w - 4 * ((w \div 4) % 2)

EnableSet(w) == EnableCleared(w) + 4

\* rs | (value & 0xF0) | bl
HighWord(value, rs, bl) == rs + 16 * (value \div 16) + bl

\* rs | ((value << 4) & 0xF0) | bl
LowWord(value, rs, bl) == rs + 16 * (value % 16) + bl

\* low, high, low on the enable line for the high nibble, then the same for
\* the low nibble
SixBytes(value, rs, bl) ==
    LET hi == HighWord(value, rs, bl)
        lo == LowWord(value, rs, bl)
    IN  << EnableCleared(hi), EnableSet(hi), EnableCleared(hi),
           EnableCleared(lo), EnableSet(lo), EnableCleared(lo) >>

\* send(value, data) has returned with the backlight on
SentA5WithBacklight ==
    /\ Returned("send")
    /\ op.args = <<165, 1>>
    /\ backlight_pin_state = LCD_BACKLIGHT

(***************************************************************************)
(* C8 as stated.  send(0xA5, data) with the backlight on writes exactly    *)
(* 0xA1, 0xA5, 0xA1, 0x51, 0x55, 0x51.                                     *)
(***************************************************************************)
C8_AsStated ==
    SentA5WithBacklight => bus = <<161, 165, 161, 81, 85, 81>>

(***************************************************************************)
(* C8 amended.  send(0xA5, data) with the backlight on writes exactly      *)
(* 0xA9, 0xAD, 0xA9, 0x59, 0x5D, 0x59: the Backlight bit 0x08 is set in    *)
(* every byte.  I2CLCD, LCD_I2C and I2CPCF8574Interface agree.             *)
(***************************************************************************)
C8_A5Fixture ==
    SentA5WithBacklight =>
        /\ bus = <<169, 173, 169, 89, 93, 89>>
        /\ InterfaceSendBytes(165, 1) = <<169, 173, 169, 89, 93, 89>>

\* I2CLCD has sent 0xA5 as data with the backlight on
C8_Witness ==
    /\ SentA5WithBacklight
    /\ variant = "CPLCD"
    /\ Len(bus) = 6

(***************************************************************************)
(* C9.  For every value in 0..255, rs in {0, 1} and backlight state in     *)
(* {0x00, 0x08}, one send writes exactly six bytes: hi with Enable         *)
(* cleared, set, cleared, then lo with Enable cleared, set, cleared, where *)
(* hi = rs | (value & 0xF0) | bl and lo = rs | ((value << 4) & 0xF0) | bl. *)
(***************************************************************************)
C9_SendSixBytes ==
    Returned("send") =>
        LET value == op.args[1]
            rs    == op.args[2]
        IN  /\ bus = SixBytes(value, rs, backlight_pin_state)
            /\ \A bl \in {LCD_NOBACKLIGHT, LCD_BACKLIGHT} :
                  /\ SendBytes(value, rs, bl) = SixBytes(value, rs, bl)
                  /\ LcdSendBytes(value, rs, bl) = SixBytes(value, rs, bl)

\* a command whose two nibbles differ, sent with the backlight off
C9_Witness ==
    /\ Returned("send")
    /\ op.args = <<60, 0>>
    /\ backlight_pin_state = LCD_NOBACKLIGHT
    /\ bus = <<48, 52, 48, 192, 196, 192>>

(***************************************************************************)
(* The reset sequence as the code sends it: each command(0x03) is one      *)
(* _send, that is two enable pulses (six bytes), the first carrying the    *)
(* data bits 0000 and the second 0011; 4.5 ms, 4.5 ms and 100 us of sleep  *)
(* follow the three sends, and command(0x02) comes fourth.                 *)
(***************************************************************************)
ResetDelays == <<4500, 4500, 100>>

ResetSendsObserved ==
    (data_bus_mode = LCD_4BITMODE /\ op.name = "init") =>
        /\ \A i \in 1..3 :
              Len(log) >= i =>
                 /\ Cmds(log)[i] = <<0, 3>>
                 /\ SubSeq(bus, 6 * i - 5, 6 * i)
                       = SixBytes(3, 0, backlight_pin_state)
                 /\ Len(log) > i => slept[i] >= ResetDelays[i]
        /\ Len(log) >= 4 => Cmds(log)[4] = <<0, 2>>
        /\ Len(bus) = 6 * Len(log)

\* one enable pulse carrying the data bits d over the low bits b
OnePulse(d, b) ==
    LET w == 16 * d + b
    IN  << EnableCleared(w), EnableSet(w), EnableCleared(w) >>

(***************************************************************************)
(* C11.  The first bus traffic of construction is the raw nibble 0x03 sent *)
(* three times, each send being one nibble transmission (one enable pulse  *)
(* carrying the data bits 0011), with at least 4.5 ms after the first, at  *)
(* least 4.5 ms after the second and at least 100 us after the third; the  *)
(* send of 0x02 follows.                                                   *)
(***************************************************************************)
C11_ResetNibbles ==
    (data_bus_mode = LCD_4BITMODE /\ op.name = "init") =>
        LET P == OnePulse(3, backlight_pin_state)
        IN  /\ phase = "Reset1" => bus = P /\ slept[1] >= 4500
            /\ phase = "Reset2" => bus = P \o P /\ slept[2] >= 4500
            /\ phase = "Reset3" => bus = P \o P \o P /\ slept[3] >= 100
            /\ phase = "ModeSelected" => Cmds(log)[4] = <<0, 2>>

(***************************************************************************)
(* The geometries the specification calls invalid.                         *)
(***************************************************************************)
InvalidGeometry ==
    \/ dotsize \notin {8, 10}
    \/ rows \notin {1, 2, 4}
    \/ dotsize = 10 /\ rows # 1

\* what BaseCharLCD does check: a dotsize other than 8 and 10 is refused with
\* ValueError before the connection is opened and before any byte is written
DotsizeRejectedObserved ==
    (variant = "CPLCD" /\ dotsize \notin {8, 10}) =>
        /\ phase \in {"PoweredOff", "Failed"}
        /\ connected = FALSE
        /\ bus = <<>>
        /\ phase = "Failed" => err = "ValueError"

(***************************************************************************)
(* C12.  Construction with an invalid geometry (font height not 8 or 10,   *)
(* rows not 1, 2 or 4, or font height 10 with rows other than 1) fails     *)
(* with a configuration error; when it fails the bus connection has not    *)
(* been opened and no byte has been written.                               *)
(***************************************************************************)
C12_InvalidGeometryRejected ==
    (InvalidGeometry /\ data_bus_mode = LCD_4BITMODE) =>
        /\ phase \in {"PoweredOff", "Failed"}
        /\ phase = "Failed" =>
              /\ err = "ValueError"
              /\ connected = FALSE
              /\ bus = <<>>

Agree(h, p) == h.cgram = FALSE /\ h.ac = CellAddress(p)

\* a call on a constructed BaseCharLCD, or its construction, has returned
\* without an exception
ReturnedNormally ==
    /\ variant = "CPLCD"
    /\ phase = "Ready"
    /\ op # Idle
    /\ err = NoError

\* with auto_linebreaks on, the stored cursor and the controller agree
\* whenever a call ends, with or without an exception
AgreementObserved ==
    (variant = "CPLCD" /\ phase = "Ready" /\ auto_linebreaks = TRUE) =>
        Agree(Controller, cursor_pos)

(***************************************************************************)
(* C15.  After any sequence of set_cursor, write, print, clear, home and   *)
(* create_char calls on an initialized BaseCharLCD, whenever an operation  *)
(* returns, the HD44780's address counter equals row_offset[row] + col of  *)
(* the stored cursor.                                                      *)
(***************************************************************************)
C15_CursorMatchesController ==
    ReturnedNormally => Agree(Controller, cursor_pos)

\* with auto_linebreaks on, the stored cursor of a constructed BaseCharLCD is
\* always a cell of the display
CursorInsideObserved ==
    (variant = "CPLCD" /\ phase = "Ready" /\ auto_linebreaks = TRUE) =>
        Inside(cursor_pos)

(***************************************************************************)
(* C16.  In every reachable state of an initialized BaseCharLCD, for       *)
(* either alignment and with auto_linebreaks enabled or disabled, the      *)
(* stored cursor (row, col) satisfies 0 <= row < rows and 0 <= col < cols. *)
(***************************************************************************)
C16_CursorInsideGeometry ==
    (variant = "CPLCD" /\ phase = "Ready") => Inside(cursor_pos)

(***************************************************************************)
(* C17.  In the LCD variant, print of "\n" from any (r, c) moves the       *)
(* cursor to ((r+1) mod rows, 0); a printable character written at the     *)
(* last column is written there and the cursor continues at column 0 of    *)
(* the next row, the bottom row wrapping to row 0; the stored (row, col)   *)
(* is always inside the geometry.                                          *)
(***************************************************************************)
C17_LcdPrintWraps ==
    variant = "lcd" =>
        /\ phase = "Ready" => Inside(cursor_pos)
        /\ (Returned("print") /\ op.args = <<"\n">>) =>
              /\ err = NoError
              /\ cursor_pos = <<(pre.pos[1] + 1) % rows, 0>>
              /\ log = << Addressed(cursor_pos) >>
        /\ (/\ \/ Returned("print") /\ op.args = <<"A">>
               \/ Returned("write") /\ op.args = <<65>>
            /\ pre.pos[2] = cols - 1) =>
              /\ err = NoError
              /\ cursor_pos = <<(pre.pos[1] + 1) % rows, 0>>
              /\ log = << DataAt(65, pre.pos), Addressed(cursor_pos) >>

\* "A" printed at the last cell of a four-row LCD: the cursor is back at (0, 0)
C17_Witness ==
    /\ variant = "lcd"
    /\ Returned("print")
    /\ op.args = <<"A">>
    /\ rows = 4
    /\ cols > 1
    /\ pre.pos = <<3, cols - 1>>
    /\ cursor_pos = <<0, 0>>

(***************************************************************************)
(* A BaseCharLCD with auto_linebreaks has returned from a print of a line  *)
(* of exactly cols characters, begun at the start of a row (column 0 under *)
(* Left alignment, column cols-1 under Right), followed by tail: the last  *)
(* character of the line causes the automatic line break.                  *)
(***************************************************************************)
LineThenTail(tail) ==
    /\ variant = "CPLCD"
    /\ auto_linebreaks = TRUE
    /\ Returned("print")
    /\ op.args = Fill(cols) \o tail
    /\ pre.pos[2] = (IF text_align_mode = LCD_ENTRYLEFT THEN 0 ELSE cols - 1)

\* where the automatic line break of such a print puts the cursor
WrapCell ==
    << (pre.pos[1] + 1) % rows,
       IF text_align_mode = LCD_ENTRYLEFT THEN 0 ELSE cols - 1 >>

\* the cell after k applied breaks c from the wrap cell
AfterBreaks(c, k) ==
    IF c = "\n" THEN << (WrapCell[1] + k) % rows, WrapCell[2] >> ELSE WrapCell

\* runs of n equal break characters
BreakRun(c, n) == [i \in 1..n |-> c]

(***************************************************************************)
(* C18.  Within one print call on BaseCharLCD, after a write has caused an *)
(* automatic line break, a run of n >= 2 equal break characters ("\n\n",   *)
(* "\r\r", ...) loses exactly one member: the first is swallowed and each  *)
(* of the other n-1 is applied as a normal break, one SetDDRAMAddr each.   *)
(***************************************************************************)
C18_RunLosesOne ==
    \A c \in {"\n", "\r"}, n \in 2..(MaxTail - 1) :
        LineThenTail(BreakRun(c, n)) =>
            /\ err = NoError
            /\ Len(log) = cols + 1 + (n - 1)
            /\ \A i \in 1..cols : log[i].rs = RS_DATA
            /\ log[cols + 1] = Addressed(WrapCell)
            /\ \A k \in 1..(n - 1) : log[cols + 1 + k] = Addressed(AfterBreaks(c, k))
            /\ cursor_pos = AfterBreaks(c, n - 1)

\* "AA\n\n" printed from (0, 0) on a four-row display: the cursor is on row 2
C18_Witness ==
    /\ LineThenTail(<<"\n", "\n">>)
    /\ cols = 2
    /\ rows = 4
    /\ pre.pos = <<0, 0>>
    /\ cursor_pos = <<2, 0>>
    /\ Len(log) = 4

(***************************************************************************)
(* A BaseCharLCD has returned from print of the single break character c,  *)
(* called while recent_auto_linebreak was set.                             *)
(***************************************************************************)
BreakPrinted(c) ==
    /\ variant = "CPLCD"
    /\ Returned("print")
    /\ op.args = <<c>>
    /\ pre.recent = TRUE

\* the break character c was applied from the position the call began at
Applied(c) ==
    /\ err = NoError
    /\ cursor_pos = (IF c = "\n"
                     THEN << (pre.pos[1] + 1) % rows, pre.pos[2] >>
                     ELSE << pre.pos[1],
                             IF text_align_mode = LCD_ENTRYLEFT
                             THEN 0 ELSE cols - 1 >>)
    /\ log = << Addressed(cursor_pos) >>

\* the break character was swallowed: nothing sent, nothing moved
Swallowed ==
    /\ err = NoError
    /\ log = <<>>
    /\ cursor_pos = pre.pos

\* what the code does: print of one break character is swallowed whenever
\* recent_auto_linebreak is set, whatever has been called since the wrap
AlwaysSwallowedObserved ==
    \A c \in {"\n", "\r"} : BreakPrinted(c) => Swallowed

(***************************************************************************)
(* C19.  print swallows "\n" or "\r" only when the automatic line break    *)
(* happened immediately before: if set_cursor, clear or home has been      *)
(* called after the write that wrapped and before the break character is   *)
(* printed, the break character is applied (it moves the cursor).          *)
(***************************************************************************)
C19_BreakAfterMoveApplied ==
    \A c \in {"\n", "\r"} :
        (BreakPrinted(c) /\ hist.moved) => Applied(c)

(***************************************************************************)
(* C20.  The line-break state behaves the same over several print calls as *)
(* within one: after an automatic line break, print("\n") followed by a    *)
(* second print("\n") swallows only the first and applies the second, as a *)
(* single print("\n\n") does.                                              *)
(***************************************************************************)
C20_SecondPrintApplied ==
    (BreakPrinted("\n") /\ hist.ignored = "\n" /\ ~hist.moved) => Applied("\n")

(***************************************************************************)
(* C21.  With no automatic line break pending, print applies a manual      *)
(* break from any cell (row, col) of the display: "\n" moves the cursor to *)
(* (row+1, col), or to (0, col) from the last row; "\r" keeps the row and  *)
(* moves to column 0 under Left alignment, to column cols-1 under Right;   *)
(* each applied break sends exactly one SetDDRAMAddr command.              *)
(***************************************************************************)
C21_ManualBreakApplied ==
    (/\ variant = "CPLCD"
     /\ Returned("print")
     /\ pre.recent = FALSE
     /\ Inside(pre.pos)) =>
        /\ \A c \in {"\n", "\r"} : op.args = <<c>> => Applied(c)
        /\ (op.args # <<>> /\ ~Printable(op.args)) =>
              /\ err = NoError
              /\ Len(log) = Len(op.args)
              /\ \A i \in DOMAIN log :
                    log[i].rs = RS_INSTRUCTION /\ log[i].value >= LCD_SETDDRAMADDR
              /\ log[Len(log)] = Addressed(cursor_pos)

\* "\n" printed at the last row, away from column 0: the column is kept
C21_Witness ==
    /\ variant = "CPLCD"
    /\ Returned("print")
    /\ op.args = <<"\n">>
    /\ pre.recent = FALSE
    /\ rows = 2
    /\ pre.pos = <<1, 2>>
    /\ cursor_pos = <<0, 2>>
    /\ Len(log) = 1

(***************************************************************************)
(* C22.  shift_display(amount) sends exactly |amount| commands, each equal *)
(* to CursorShift | DisplayMove | direction, the direction being MoveRight *)
(* when amount > 0 and MoveLeft when amount < 0; shift_display(0) writes   *)
(* nothing; the stored cursor and recent_auto_linebreak are unchanged.     *)
(***************************************************************************)
C22_ShiftDisplay ==
    Returned("shift_display") =>
        LET amount == op.args[1]
        IN  /\ err = NoError
            /\ Len(log) = Abs(amount)
            /\ Len(bus) = 6 * Abs(amount)
            /\ \A i \in DOMAIN log :
                  /\ log[i].rs = RS_INSTRUCTION
                  /\ log[i].value =
                        LCD_CURSORSHIFT + LCD_DISPLAYMOVE
                        + (IF amount > 0 THEN LCD_MOVERIGHT ELSE LCD_MOVELEFT)
            /\ cursor_pos = pre.pos
            /\ recent_auto_linebreak = pre.recent

\* a shift by two to the left, from a cursor away from home
C22_Witness ==
    /\ Returned("shift_display")
    /\ op.args = <<-2>>
    /\ Len(log) = 2
    /\ log[2].value = LCD_CURSORSHIFT + LCD_DISPLAYMOVE + LCD_MOVELEFT
    /\ cursor_pos # <<0, 0>>

\* bit number n (0 the lowest) of the byte b
Bit(b, n) == (b \div (2 ^ n)) % 2

(***************************************************************************)
(* C23.  On an I2CLCD, every byte written after backlight_on was set to b  *)
(* carries b in the Backlight bit (bit 3), in every nibble of every send;  *)
(* the setter itself writes exactly one byte, with Enable low, so that no  *)
(* nibble is latched, and leaves the cursor unchanged.                     *)
(***************************************************************************)
C23_BacklightBit ==
    (variant = "CPLCD" /\ phase = "Ready") =>
        /\ \A i \in DOMAIN bus :
              Bit(bus[i], 3) = Bit(backlight_pin_state, 3)
        /\ Returned("backlight") =>
              /\ err = NoError
              /\ backlight_pin_state =
                    (IF op.args[1] THEN LCD_BACKLIGHT ELSE LCD_NOBACKLIGHT)
              /\ bus = << backlight_pin_state >>
              /\ Bit(bus[1], 2) = 0
              /\ log = <<>>
              /\ cursor_pos = pre.pos
              /\ recent_auto_linebreak = pre.recent

\* a character written with the backlight switched off
C23_Witness ==
    /\ variant = "CPLCD"
    /\ Returned("write")
    /\ backlight_pin_state = LCD_NOBACKLIGHT
    /\ Len(bus) = 6
    /\ \A i \in DOMAIN bus : Bit(bus[i], 3) = 0

\* every byte of w has the ReadWrite bit (0x02) cleared
WriteOnly(w) == \A i \in DOMAIN w : Bit(w[i], 1) = 0

\* the last byte of w, if there is one, has the Enable bit (0x04) cleared
EndsEnableLow(w) == w # <<>> => Bit(w[Len(w)], 2) = 0

(***************************************************************************)
(* C24.  Every byte ever written, during construction and by any operation,*)
(* has the ReadWrite bit (0x02) cleared, and whenever an operation returns *)
(* the last byte written has the Enable bit (bit 2) cleared.  The same is  *)
(* true of the bytes I2CPCF8574Interface.send writes for the same call.    *)
(***************************************************************************)
C24_WriteOnlyEnableLow ==
    /\ WriteOnly(bus)
    /\ (phase = "Ready" /\ op # Idle) => EndsEnableLow(bus)
    /\ Returned("send") =>
          LET w == InterfaceSendBytes(op.args[1], op.args[2])
          IN  WriteOnly(w) /\ EndsEnableLow(w)

\* a data byte with every data bit set has been sent by an I2CLCD
C24_Witness ==
    /\ variant = "CPLCD"
    /\ Returned("send")
    /\ op.args = <<255, RS_DATA>>
    /\ Len(bus) = 6
    /\ bus[6] = 241 + backlight_pin_state

\* what the call name(args) makes of the object s
Perform(s, name, args) ==
    CASE name = "set_cursor" -> SetCursorPos(s, args)
      [] name = "write" -> Write(s, args[1])
      [] name = "print" -> PrintString(s, args)
      [] name = "clear" -> Clear(s)
      [] name = "home" -> Home(s)
      [] name = "shift_display" -> ShiftDisplay(s, args[1])
      [] name = "create_char" -> CreateChar(s, args[1], args[2])
      [] name = "text_align_mode" -> SetTextAlignMode(s, args[1])
      [] name = "backlight" -> SetBacklight(s, args[1])

\* the same call from the same state on a bus that refuses nothing
Unfailing == Perform([Begin EXCEPT !.fault = NoFault], op'.name, op'.args)

(***************************************************************************)
(* C25.  If the transport refuses one of the byte writes of a send, the    *)
(* error reaches the caller of the operation in progress, the refused byte *)
(* is not written again, and the operation writes no further byte: of the  *)
(* bytes the call writes on a working bus, exactly those before the        *)
(* refused one are written.  A call that ends before the refused write is  *)
(* as on a working bus.                                                    *)
(***************************************************************************)
C25_FailurePropagates ==
    [][(phase = "Ready" /\ op = Idle /\ op' # Idle /\ fault # NoFault) =>
          LET u == Unfailing
          IN  IF fault <= Len(u.bus)
              THEN /\ err' = "OSError"
                   /\ bus' = SubSeq(u.bus, 1, fault - 1)
              ELSE /\ err' = u.err
                   /\ bus' = u.bus]_vars

\* the Enable-high byte of the low nibble of the second send of a write of
\* LCD_I2C was refused: ten bytes are on the bus and the error is raised
C25_Witness ==
    /\ variant = "lcd"
    /\ Returned("write")
    /\ fault = 11
    /\ err = "OSError"
    /\ Len(bus) = 10
    /\ Len(log) = 1

\* the bytes a trace writes, in order
RECURSIVE Writes(_)
Writes(tr) ==
    IF tr = <<>> THEN <<>>
    ELSE (IF Head(tr).kind = "write" THEN << Head(tr).v >> ELSE <<>>)
         \o Writes(Tail(tr))

\* the microseconds slept from event i + 1 of the trace up to the next write,
\* or up to the end of the trace
RECURSIVE Pause(_, _)
Pause(tr, i) ==
    IF i >= Len(tr) \/ tr[i + 1].kind = "write" THEN 0
    ELSE tr[i + 1].v + Pause(tr, i + 1)

\* the positions of the writes of a trace
WritePositions(tr) == {i \in DOMAIN tr : tr[i].kind = "write"}

\* the writes of the trace come in threes with Enable low, high, low; at
\* least 1 us passes after the first and after the second of each three, and
\* at least 100 us after the third before anything else is written
Timed(tr) ==
    LET W == WritePositions(tr)
        nth(i) == Cardinality({j \in W : j <= i})
    IN  /\ Cardinality(W) % 3 = 0
        /\ \A i \in W :
              CASE nth(i) % 3 = 1 -> Bit(tr[i].v, 2) = 0 /\ Pause(tr, i) >= 1
                [] nth(i) % 3 = 2 -> Bit(tr[i].v, 2) = 1 /\ Pause(tr, i) >= 1
                [] nth(i) % 3 = 0 -> Bit(tr[i].v, 2) = 0 /\ Pause(tr, i) >= 100

(***************************************************************************)
(* C26.  In the ordered trace of bus writes and sleeps of every nibble     *)
(* transmission, at least 1 us passes between the Enable-low write and the *)
(* Enable-high write, at least 1 us between the Enable-high write and the  *)
(* final Enable-low write, and at least 100 us after the final Enable-low  *)
(* write before the next byte is written.  The writes of the trace are the *)
(* bytes the send put on the bus, and the same holds of LCD_I2C and of     *)
(* I2CPCF8574Interface.                                                    *)
(***************************************************************************)
C26_PulseTiming ==
    (Returned("send") /\ err = NoError) =>
        LET value == op.args[1]
            rs    == op.args[2]
            tr    == IF variant = "CPLCD"
                     THEN SendTrace(value, rs, backlight_pin_state)
                     ELSE LcdSendTrace(value, rs, backlight_pin_state)
            other == LcdSendTrace(value, rs, LCD_BACKLIGHT)
        IN  /\ Writes(tr) = bus
            /\ Timed(tr)
            /\ slept = << Pause(tr, Len(tr) - 1) >>
            /\ Writes(other) = InterfaceSendBytes(value, rs)
            /\ Timed(other)

\* a command byte sent by an I2CLCD with the backlight off
C26_Witness ==
    /\ variant = "CPLCD"
    /\ Returned("send")
    /\ op.args = <<LCD_CLEARDISPLAY, RS_INSTRUCTION>>
    /\ backlight_pin_state = LCD_NOBACKLIGHT
    /\ bus = <<0, 4, 0, 16, 20, 16>>
    /\ slept = <<PulseHold>>

\* the FunctionSet command has just been sent
FunctionSetSent == phase = "FunctionSet" /\ log # <<>>

\* 0x20 | bus-mode bit | line bit | font bit, the line bit being 0x00 for one
\* row and 0x08 otherwise, the font bit 0x04 for a font height of 10
FunctionSetByte ==
    LCD_FUNCTIONSET + data_bus_mode
    + (IF rows = 1 THEN LCD_1LINE ELSE LCD_2LINE)
    + (IF dotsize = 10 THEN LCD_5x10DOTS ELSE LCD_5x8DOTS)

\* for 1, 2 and 4 rows the byte is as described, and 4 rows send the byte of
\* 2 rows
FunctionSetObserved ==
    (FunctionSetSent /\ rows \in {1, 2, 4}) =>
        /\ log[Len(log)] = [rs |-> RS_INSTRUCTION, value |-> FunctionSetByte,
                            at |-> cursor_pos]
        /\ Bit(FunctionSetByte, 3) = (IF rows = 1 THEN 0 ELSE 1)
        /\ Bit(FunctionSetByte, 2) = (IF dotsize = 10 THEN 1 ELSE 0)

(***************************************************************************)
(* C27.  For every geometry the constructor accepts, the FunctionSet byte  *)
(* sent at construction is 0x20 | bus-mode bit | line bit | font bit, with *)
(* the line bit 0x00 exactly when rows = 1 and 0x08 when rows is 2 or 4,   *)
(* and the font bit 0x04 exactly when the font height is 10; a 4-row       *)
(* display sends the same byte as a 2-row display.                         *)
(***************************************************************************)
C27_FunctionSetByte ==
    FunctionSetSent =>
        /\ log[Len(log)].rs = RS_INSTRUCTION
        /\ log[Len(log)].value = FunctionSetByte
        /\ (Bit(log[Len(log)].value, 3) = 0) <=> (rows = 1)
        /\ (Bit(log[Len(log)].value, 2) = 1) <=> (dotsize = 10)

\* the cells of the display
Cells == (0..(rows - 1)) \X (0..(cols - 1))

(***************************************************************************)
(* C28.  For rows in {1, 2, 4} and every cols from 1 to 20, the address    *)
(* row_offset[row] + col, with row_offset = (0x00, 0x40, cols, 0x40+cols), *)
(* is below 0x80 for every cell of the display and different for any two   *)
(* different cells: the command the setter sends for a cell carries that   *)
(* address in its low seven bits, and the command for no other cell is the *)
(* same.                                                                   *)
(***************************************************************************)
C28_AddressesDistinct ==
    (Returned("set_cursor") /\ Inside(op.args) /\ rows \in {1, 2, 4}) =>
        /\ err = NoError
        /\ Len(log) = 1
        /\ CellAddress(op.args) < 128
        /\ log[1].value = LCD_SETDDRAMADDR + CellAddress(op.args)
        /\ \A q \in Cells :
              q # op.args => DDRAMCommand(q[1], q[2]) # log[1].value

\* the last cell of a display of 4 rows and 20 columns: address 0x67
C28_Witness ==
    /\ Returned("set_cursor")
    /\ rows = 4
    /\ cols = 20
    /\ op.args = <<3, 19>>
    /\ log = << [rs |-> RS_INSTRUCTION, value |-> 231, at |-> <<3, 19>>] >>

=============================================================================
